---- MODULE Spec2Model ----
(***************************************************************************)
(* Model of src/ai_service.py: the WipeSure residue analyzer, a Flask      *)
(* service with four routes (/health, /analyze, /quick-scan,               *)
(* /simulation/patterns) and one module-level ResidueAnalyzer instance.    *)
(*                                                                         *)
(* Numbers.  Every float of the program is carried as an integer number of *)
(* thousandths (99.8 is 99800, 0.1 is 100), so that the value before       *)
(* round(x, 2) and the value after it live on one scale.                   *)
(*                                                                         *)
(* Randomness.  random.random() is a draw k / RandRes, k in 0..RandRes-1;  *)
(* random.uniform(a, b) is a + (b - a) * random(), which starts at a and,  *)
(* depending on the rounding of the last float operation, may or may not   *)
(* reach b.  random.randint(a, b) is any integer of a..b.                  *)
(***************************************************************************)
EXTENDS Integers, Sequences, FiniteSets, TLC

(* ------------------------------ bounds --------------------------------- *)

\* resolution of random.random(): the draws are k / RandRes
RandRes == 8
\* hash randomisation (PYTHONHASHSEED): the process picks a seed in 0..MaxHashSeed
MaxHashSeed == 1
\* request threads of the concurrent specification
NumWorkers == 2
\* entropy inputs of the pure-function specification: 100.00 down to
\* 100.00 - MaxBelow / 100
MaxBelow == 700
\* recoverable-file inputs of the pure-function specification: 0..MaxRecoverable
MaxRecoverable == 12
\* number of random streams a /simulation/patterns request may consume
MaxStream == 5

(* --------------------------- JSON / Python values ---------------------- *)

\* a decoded JSON value (a Python object); s and n are used according to t
JStr(s) == [t |-> "str", s |-> s, n |-> 0]
JNum(n) == [t |-> "num", s |-> "", n |-> n]
\* a list of n elements
JList(n) == [t |-> "list", s |-> "", n |-> n]
\* Python None, which is also what JSON null decodes to
JNone == [t |-> "none", s |-> "", n |-> 0]

\* bool(v) as `not v` uses it: None, "", 0 and [] are false
Truthy(v) ==
  CASE v.t = "str" -> v.s # ""
    [] v.t = "num" -> v.n # 0
    [] v.t = "list" -> v.n > 0
    [] OTHER -> FALSE

\* hash(v) raises TypeError for a list
Hashable(v) == v.t # "list"

\* the strings the requests of the model use, numbered
StrCode(s) ==
  CASE s = "d1" -> 1
    [] s = "unknown" -> 2
    [] s = "j1" -> 3
    [] OTHER -> 4

\* hash() of a non-empty str: keyed by the process's seed, any sign
StrHash(seed, s) == (((seed + 3) * (StrCode(s) * 37 + 11) * 101) % 65536) - 32768

\* hash(v): "" hashes to 0, a small int to itself, None to a per-process constant
PyHash(seed, v) ==
  CASE v.t = "str" -> (IF v.s = "" THEN 0 ELSE StrHash(seed, v.s))
    [] v.t = "num" -> v.n
    [] OTHER -> 4096 + 16 * seed

\* mutant: the remainder of C, which has the sign of the dividend
CMod100(x) == IF x >= 0 THEN x % 100 ELSE 0 - ((0 - x) % 100)

\* Python's x % 100: the result has the sign of the divisor
PyMod100(x) == x % 100

\* hash(device_id) % 100 / 100.0, in thousandths
device_factor(seed, device_id) == PyMod100(PyHash(seed, device_id)) * 10

(* ------------------------------ random --------------------------------- *)

\* a + (b - a) * k / RandRes, truncated to the thousandth
UniformAt(a, b, k) == a + ((b - a) * k) \div RandRes

\* random.uniform(a, b) whose last float operation can round up to b
UniformClosed(a, b) == {UniformAt(a, b, k) : k \in 0..RandRes}

\* random.randint(a, b)
RandInt(a, b) == a..b

Min(a, b) == IF a <= b THEN a ELSE b

\* round(x, 2) of x in thousandths: the nearest hundredth; at a decimal tie the
\* float's binary value decides, so both neighbours are outcomes
Round2(x) ==
  LET lo == (x \div 10) * 10
      r == x % 10
  IN  IF r < 5 THEN {lo}
      ELSE IF r > 5 THEN {lo + 10}
      ELSE {lo, lo + 10}

(* --------------------------- ResidueAnalyzer --------------------------- *)

ResidueAnalyzer == [entropy_threshold |-> 99500]

\* the results calculate_entropy(device_id) can return
calculate_entropy(seed, device_id) ==
  UNION {Round2(Min(100000, base_entropy + device_factor(seed, device_id))) :
           base_entropy \in UniformClosed(95000, 100000)}

\* mutant: the thresholds compared with > instead of >=
detect_recoverable_files_strict(entropy_score) ==
  IF entropy_score > 99800 THEN {0}
  ELSE IF entropy_score > 99000 THEN RandInt(0, 2)
  ELSE IF entropy_score > 95000 THEN RandInt(2, 10)
  ELSE RandInt(10, 50)

\* mutant: the second bucket drawn from 0..3
detect_recoverable_files_loose(entropy_score) ==
  IF entropy_score >= 99800 THEN {0}
  ELSE IF entropy_score >= 99000 THEN RandInt(0, 3)
  ELSE IF entropy_score >= 95000 THEN RandInt(2, 10)
  ELSE RandInt(10, 50)

\* the results detect_recoverable_files(entropy_score) can return
detect_recoverable_files(entropy_score) ==
  IF entropy_score >= 99800 THEN {0}
  ELSE IF entropy_score >= 99000 THEN RandInt(0, 2)
  ELSE IF entropy_score >= 95000 THEN RandInt(2, 10)
  ELSE RandInt(10, 50)

\* mutant: the SOME_RESIDUE test placed before the MOSTLY_CLEAN test
determine_residue_status_reordered(entropy_score, recoverable_files) ==
  IF entropy_score >= 99800 /\ recoverable_files = 0 THEN "CLEAN"
  ELSE IF entropy_score >= 95000 THEN "SOME_RESIDUE"
  ELSE IF entropy_score >= 99000 /\ recoverable_files <= 2 THEN "MOSTLY_CLEAN"
  ELSE "HIGH_RESIDUE"

determine_residue_status(entropy_score, recoverable_files) ==
  IF entropy_score >= 99800 /\ recoverable_files = 0 THEN "CLEAN"
  ELSE IF entropy_score >= 99000 /\ recoverable_files <= 2 THEN "MOSTLY_CLEAN"
  ELSE IF entropy_score >= 95000 THEN "SOME_RESIDUE"
  ELSE "HIGH_RESIDUE"

(* ------------------------------ requests ------------------------------- *)

\* what request.get_json() meets: a JSON object with some of the keys job_id and
\* device_id, JSON null, a JSON array, or a body that is no JSON
ObjectBody(keys, job_id, device_id) ==
  [kind |-> "object", keys |-> keys, job_id |-> job_id, device_id |-> device_id]

NonObjectBody(kind) ==
  [kind |-> kind, keys |-> {}, job_id |-> JNone, device_id |-> JNone]

JobValues == {JStr("j1"), JStr(""), JNone}

DeviceValues ==
  {JStr("d1"), JStr("unknown"), JStr(""), JNone, JNum(7), JNum(0), JList(1), JList(0)}

NonObjectBodies == {NonObjectBody(k) : k \in {"null", "array", "malformed"}}

AnalyzeBodies ==
  {ObjectBody({"job_id", "device_id"}, j, d) : j \in JobValues, d \in DeviceValues}
    \cup {ObjectBody({"job_id"}, j, JNone) : j \in JobValues}
    \cup {ObjectBody({"device_id"}, JNone, d) : d \in DeviceValues}
    \cup {ObjectBody({}, JNone, JNone)}
    \cup NonObjectBodies

QuickScanBodies ==
  {ObjectBody({"device_id"}, JNone, d) : d \in DeviceValues}
    \cup {ObjectBody({}, JNone, JNone)}
    \cup NonObjectBodies

\* the requests of the concurrent specification
ConcAnalyzeBodies ==
  {ObjectBody({"job_id", "device_id"}, JStr("j1"), JStr("d1")),
   ObjectBody({}, JNone, JNone),
   NonObjectBody("null")}

ConcQuickScanBodies == {ObjectBody({}, JNone, JNone), NonObjectBody("array")}

\* mutant: dict.get(key), the default dropped
DictGetNoDefault(body, key, default) ==
  IF key \notin body.keys THEN JNone
  ELSE IF key = "job_id" THEN body.job_id
  ELSE body.device_id

\* dict.get(key, default)
DictGet(body, key, default) ==
  IF key \notin body.keys THEN default
  ELSE IF key = "job_id" THEN body.job_id
  ELSE body.device_id

\* the exceptions the handlers can meet, all subclasses of Exception:
\* BadRequest (get_json on a body that is no JSON), AttributeError (.get on a
\* value that is no dict), TypeError (hash of a list)
Exceptions == {"BadRequest", "AttributeError", "TypeError"}

\* mutant: `except ValueError as e`
CaughtByExceptValueError(e) == e \in {"ValueError"}

\* `except Exception as e` catches e
CaughtByExceptException(e) == e \in Exceptions

(* -------------------------------- state -------------------------------- *)

VARIABLES
  analyzer,   \* the module-level ResidueAnalyzer instance
  hashSeed,   \* the process's hash randomisation seed
  workers,    \* the request each thread is handling: its position and locals
  failed,     \* some request has been answered with 400 or 500
  fn          \* the last direct call of a scoring method, with its result

vars == <<analyzer, hashSeed, workers, failed, fn>>

Workers == 1..NumWorkers

NoBody == NonObjectBody("none")

NoResponse == [code |-> 0]

\* a thread between two requests: no request, no locals (-1: not assigned)
IdleWorker ==
  [pc |-> "idle", endpoint |-> "", body |-> NoBody,
   job_id |-> JNone, device_id |-> JNone,
   entropy_score |-> -1, recoverable_files |-> -1, residue_status |-> "",
   exc |-> "", trace |-> << >>, response |-> NoResponse]

NoCall == [op |-> "", entropy_score |-> -1, recoverable_files |-> -1,
           result |-> "", outcomes |-> {}]

Init ==
  /\ analyzer = ResidueAnalyzer
  /\ hashSeed \in 0..MaxHashSeed
  /\ workers = [w \in Workers |-> IdleWorker]
  /\ failed = FALSE
  /\ fn = NoCall

\* worker w moves to the record r
Becomes(w, r) ==
  /\ workers' = [workers EXCEPT ![w] = r]
  /\ UNCHANGED <<analyzer, hashSeed, failed, fn>>

Event(w, e) == Append(workers[w].trace, e)

\* a request arrives at an idle thread
Receive(w, endpoint, bodies) ==
  /\ workers[w].pc = "idle"
  /\ \E b \in bodies :
       Becomes(w, [IdleWorker EXCEPT !.pc = "start", !.endpoint = endpoint, !.body = b])

\* raise e inside the try block
Raise(w, e) == [workers[w] EXCEPT !.pc = "raised", !.exc = e]

\* return (body, code) from the handler
Respond(w, code, body) ==
  [workers[w] EXCEPT !.pc = "done", !.trace = Event(w, "respond"),
                     !.response = [code |-> code, body |-> body]]

(* ------------------------------- /health ------------------------------- *)

health_check(w) ==
  /\ workers[w].pc = "start"
  /\ workers[w].endpoint = "/health"
  /\ Becomes(w, Respond(w, 200,
       [status |-> "healthy", service |-> "WipeSure AI Residue Analyzer",
        version |-> "1.0.0"]))

(* ------------------------------- /analyze ------------------------------ *)

\* data = request.get_json(); job_id = data.get('job_id');
\* device_id = data.get('device_id')
analyze_read(w) ==
  LET me == workers[w] IN
  /\ me.pc = "start"
  /\ me.endpoint = "/analyze"
  /\ Becomes(w,
       IF me.body.kind = "malformed" THEN Raise(w, "BadRequest")
       ELSE IF me.body.kind # "object" THEN Raise(w, "AttributeError")
       ELSE [me EXCEPT !.pc = "validate",
                       !.job_id = DictGet(me.body, "job_id", JNone),
                       !.device_id = DictGet(me.body, "device_id", JNone)])

\* if not job_id or not device_id: return {"error": ...}, 400
analyze_validate(w) ==
  LET me == workers[w]
      checked == [me EXCEPT !.trace = Event(w, "validate")]
  IN
  /\ me.pc = "validate"
  /\ Becomes(w,
       IF ~Truthy(me.job_id) \/ ~Truthy(me.device_id)
       THEN [checked EXCEPT
               !.pc = "done",
               !.trace = Append(checked.trace, "respond"),
               !.response =
                 [code |-> 400,
                  body |-> [error |-> "Missing required parameters: job_id and device_id"]]]
       ELSE [checked EXCEPT !.pc = "sleep"])

\* mutant: analyze_device without its time.sleep
analyze_no_sleep(w) ==
  /\ workers[w].pc = "sleep"
  /\ Becomes(w, [workers[w] EXCEPT !.pc = "entropy"])

\* analyze_device: time.sleep(random.uniform(2, 5))
analyze_sleep(w) ==
  LET me == workers[w] IN
  /\ me.pc = "sleep"
  /\ \E seconds \in UniformClosed(2000, 5000) :
       Becomes(w, [me EXCEPT !.pc = "entropy", !.trace = Event(w, "delay")])

(* ------------------- the scoring steps of both handlers ----------------- *)

\* mutant: calculate_entropy keeps its result on the analyzer
score_entropy_stored(w) ==
  LET me == workers[w] IN
  /\ me.pc = "entropy"
  /\ IF ~Hashable(me.device_id)
     THEN Becomes(w, Raise(w, "TypeError"))
     ELSE \E e \in calculate_entropy(hashSeed, me.device_id) :
            /\ workers' = [workers EXCEPT ![w] =
                  [me EXCEPT !.pc = "recoverable", !.entropy_score = e,
                             !.trace = Event(w, "entropy")]]
            /\ analyzer' = [analyzer EXCEPT !.entropy_threshold = e]
            /\ UNCHANGED <<hashSeed, failed, fn>>

\* entropy_score = self.calculate_entropy(device_id)
score_entropy(w) ==
  LET me == workers[w] IN
  /\ me.pc = "entropy"
  /\ IF ~Hashable(me.device_id)
     THEN Becomes(w, Raise(w, "TypeError"))
     ELSE \E e \in calculate_entropy(hashSeed, me.device_id) :
            Becomes(w, [me EXCEPT !.pc = "recoverable", !.entropy_score = e,
                                  !.trace = Event(w, "entropy")])

\* recoverable_files = self.detect_recoverable_files(entropy_score)
score_recoverable(w) ==
  LET me == workers[w] IN
  /\ me.pc = "recoverable"
  /\ \E n \in detect_recoverable_files(me.entropy_score) :
       Becomes(w, [me EXCEPT !.pc = "classify", !.recoverable_files = n,
                             !.trace = Event(w, "recoverable")])

\* residue_status = self.determine_residue_status(entropy_score, recoverable_files)
score_status(w) ==
  LET me == workers[w] IN
  /\ me.pc = "classify"
  /\ Becomes(w, [me EXCEPT
       !.pc = "result",
       !.residue_status = determine_residue_status(me.entropy_score, me.recoverable_files),
       !.trace = Event(w, "classify")])

\* the dict analyze_device returns; analysis_details, timestamp and
\* confidence_level are fresh draws that nothing reads
analyze_result(me) ==
  [job_id |-> me.job_id, device_id |-> me.device_id,
   entropy_score |-> me.entropy_score,
   recoverable_files |-> me.recoverable_files,
   residue_status |-> me.residue_status]

\* return jsonify(result)
analyze_respond(w) ==
  LET me == workers[w] IN
  /\ me.pc = "result"
  /\ me.endpoint = "/analyze"
  /\ Becomes(w, Respond(w, 200, analyze_result(me)))

\* the body of /analyze's except branch
analyze_sentinel(e) ==
  [error |-> "Analysis failed: " \o e, entropy_score |-> 0,
   recoverable_files |-> 999, residue_status |-> "ERROR"]

\* except Exception as e: return {...sentinel...}, 500; an exception the clause
\* does not catch leaves the handler
analyze_except(w) ==
  LET me == workers[w] IN
  /\ me.pc = "raised"
  /\ me.endpoint = "/analyze"
  /\ Becomes(w,
       IF CaughtByExceptException(me.exc)
       THEN Respond(w, 500, analyze_sentinel(me.exc))
       ELSE [me EXCEPT !.pc = "propagated"])

(* ------------------------------ /quick-scan ----------------------------- *)

\* data = request.get_json(); device_id = data.get('device_id', 'unknown')
quick_scan_read(w) ==
  LET me == workers[w] IN
  /\ me.pc = "start"
  /\ me.endpoint = "/quick-scan"
  /\ Becomes(w,
       IF me.body.kind = "malformed" THEN Raise(w, "BadRequest")
       ELSE IF me.body.kind # "object" THEN Raise(w, "AttributeError")
       ELSE [me EXCEPT !.pc = "entropy",
                       !.device_id = DictGet(me.body, "device_id", JStr("unknown"))])

quick_scan_result(me) ==
  [entropy_score |-> me.entropy_score,
   recoverable_files |-> me.recoverable_files,
   residue_status |-> me.residue_status,
   scan_progress |-> 100, estimated_time |-> 0]

\* return jsonify({...})
quick_scan_respond(w) ==
  LET me == workers[w] IN
  /\ me.pc = "result"
  /\ me.endpoint = "/quick-scan"
  /\ Becomes(w, Respond(w, 200, quick_scan_result(me)))

\* except Exception as e: return {"error": ...}, 500
quick_scan_except(w) ==
  LET me == workers[w] IN
  /\ me.pc = "raised"
  /\ me.endpoint = "/quick-scan"
  /\ Becomes(w,
       IF CaughtByExceptException(me.exc)
       THEN Respond(w, 500, [error |-> "Quick scan failed: " \o me.exc])
       ELSE [me EXCEPT !.pc = "propagated"])

(* -------------------------- /simulation/patterns ----------------------- *)

\* range(360)
Degrees == 360

PatternTypes == <<"deleted_file", "metadata", "free_space", "encrypted">>

\* the n-th draw of random stream s, as the numerator k of k / RandRes
RandomAt(s, n) == (s + n + (n \div RandRes)) % RandRes

\* mutant: the angles counted from 1
PatternPointFromOne(s, i) ==
  [angle |-> i + 1,
   distance |-> UniformAt(100, 1000, RandomAt(s, 3 * i)),
   intensity |-> UniformAt(0, 100000, RandomAt(s, 3 * i + 1)),
   pattern_type |-> PatternTypes[(RandomAt(s, 3 * i + 2) % Len(PatternTypes)) + 1]]

\* the dict appended in iteration i, which takes draws 3i, 3i+1 and 3i+2
PatternPoint(s, i) ==
  [angle |-> i,
   distance |-> UniformAt(100, 1000, RandomAt(s, 3 * i)),
   intensity |-> UniformAt(0, 100000, RandomAt(s, 3 * i + 1)),
   pattern_type |-> PatternTypes[(RandomAt(s, 3 * i + 2) % Len(PatternTypes)) + 1]]

\* patterns after the loop: entry i + 1 of the sequence is list index i
PatternList(s) == [i \in 1..Degrees |-> PatternPoint(s, i - 1)]

get_data_patterns(w) ==
  /\ workers[w].pc = "start"
  /\ workers[w].endpoint = "/simulation/patterns"
  /\ \E s \in 0..MaxStream :
       LET patterns == PatternList(s) IN
       Becomes(w, Respond(w, 200,
         [patterns |-> patterns, scan_radius |-> 1000, total_points |-> Len(patterns)]))

(* --------------------------- end of a request --------------------------- *)

\* the response is sent; the handler's locals are gone and the thread is free
Complete(w) ==
  /\ workers[w].pc = "done"
  /\ workers' = [workers EXCEPT ![w] = IdleWorker]
  /\ failed' = (failed \/ workers[w].response.code \in {400, 500})
  /\ UNCHANGED <<analyzer, hashSeed, fn>>

(* ------------------- direct calls of the scoring methods ---------------- *)

\* the entropy scores a direct call is tried with: 100.00 downwards in hundredths
EntropyInputs == {100000 - 10 * k : k \in 0..MaxBelow}

CallDetermineResidueStatus ==
  /\ fn = NoCall
  /\ \E e \in EntropyInputs, n \in 0..MaxRecoverable :
       fn' = [op |-> "determine_residue_status", entropy_score |-> e,
              recoverable_files |-> n, result |-> determine_residue_status(e, n),
              outcomes |-> {}]
  /\ UNCHANGED <<analyzer, hashSeed, workers, failed>>

CallDetectRecoverableFiles ==
  /\ fn = NoCall
  /\ \E e \in EntropyInputs :
       \E n \in detect_recoverable_files(e) :
         fn' = [op |-> "detect_recoverable_files", entropy_score |-> e,
                recoverable_files |-> n, result |-> "",
                outcomes |-> detect_recoverable_files(e)]
  /\ UNCHANGED <<analyzer, hashSeed, workers, failed>>

\* the caller drops the result
ForgetCall ==
  /\ fn # NoCall
  /\ fn' = NoCall
  /\ UNCHANGED <<analyzer, hashSeed, workers, failed>>

(* ---------------------------- specifications ---------------------------- *)

\* one step of the request thread w
Handle(w) ==
  \/ health_check(w)
  \/ analyze_read(w)
  \/ analyze_validate(w)
  \/ analyze_sleep(w)
  \/ score_entropy(w)
  \/ score_recoverable(w)
  \/ score_status(w)
  \/ analyze_respond(w)
  \/ analyze_except(w)
  \/ quick_scan_read(w)
  \/ quick_scan_respond(w)
  \/ quick_scan_except(w)
  \/ get_data_patterns(w)
  \/ Complete(w)

\* requests one after the other, on one thread
Next ==
  \/ Receive(1, "/health", {NoBody})
  \/ Receive(1, "/analyze", AnalyzeBodies)
  \/ Receive(1, "/quick-scan", QuickScanBodies)
  \/ Receive(1, "/simulation/patterns", {NoBody})
  \/ Handle(1)

Spec == Init /\ [][Next]_vars

\* requests handled concurrently, the threads interleaved step by step
NextConc ==
  \E w \in Workers :
    \/ Receive(w, "/health", {NoBody})
    \/ Receive(w, "/analyze", ConcAnalyzeBodies)
    \/ Receive(w, "/quick-scan", ConcQuickScanBodies)
    \/ Receive(w, "/simulation/patterns", {NoBody})
    \/ Handle(w)

SpecConc == Init /\ [][NextConc]_vars

\* the scoring methods called directly
NextFn ==
  \/ CallDetermineResidueStatus
  \/ CallDetectRecoverableFiles
  \/ ForgetCall

SpecFn == Init /\ [][NextFn]_vars

(* ================================ claims ================================ *)

\* the worker w has answered its request
Answered(w) == workers[w].pc = "done"

AnsweredOn(w, endpoint) == Answered(w) /\ workers[w].endpoint = endpoint

\* a JSON value that is a non-empty string
NonEmptyStr(v) == v.t = "str" /\ v.s # ""

\* a field that is absent, null or the empty string
MissingField(body, key) ==
  \/ key \notin body.keys
  \/ DictGet(body, key, JNone) = JNone
  \/ DictGet(body, key, JNone) = JStr("")

(* ---- C1 ---- *)

\* the threshold table of the claim, each row with the rows above it excluded
TableStatus(e, n) ==
  CASE e >= 99800 /\ n = 0 -> "CLEAN"
    [] e >= 99000 /\ n <= 2 /\ ~(e >= 99800 /\ n = 0) -> "MOSTLY_CLEAN"
    [] e >= 95000 /\ ~(e >= 99000 /\ n <= 2) -> "SOME_RESIDUE"
    [] e < 95000 -> "HIGH_RESIDUE"

\* C1: determine_residue_status(entropy, recoverable) is the first-match-wins
\* threshold table for every entropy and every recoverable >= 0; 99.9 with 5 is
\* SOME_RESIDUE, 99.5 with 1 is MOSTLY_CLEAN, and below 95.0 it is HIGH_RESIDUE
\* whatever recoverable is.
C1_StatusIsThresholdTable ==
  fn.op = "determine_residue_status" =>
    /\ fn.result = TableStatus(fn.entropy_score, fn.recoverable_files)
    /\ (fn.entropy_score = 99900 /\ fn.recoverable_files = 5 => fn.result = "SOME_RESIDUE")
    /\ (fn.entropy_score = 99500 /\ fn.recoverable_files = 1 => fn.result = "MOSTLY_CLEAN")
    /\ (fn.entropy_score < 95000 => fn.result = "HIGH_RESIDUE")

C1_Witness ==
  /\ fn.op = "determine_residue_status"
  /\ fn.entropy_score = 99900
  /\ fn.recoverable_files = 5
  /\ fn.result = "SOME_RESIDUE"

(* ---- C7 ---- *)

\* the range the claim gives each entropy bucket
BucketRange(e) ==
  CASE e >= 99800 -> {0}
    [] e >= 99000 /\ e < 99800 -> 0..2
    [] e >= 95000 /\ e < 99000 -> 2..10
    [] e < 95000 -> 10..50

\* C7: detect_recoverable_files(entropy) returns a value of the range its
\* entropy bucket fixes (0; 0..2; 2..10; 10..50), and every integer of that
\* range is a possible result.
C7_RecoverableInBucketRange ==
  fn.op = "detect_recoverable_files" =>
    /\ fn.recoverable_files \in BucketRange(fn.entropy_score)
    /\ fn.outcomes = BucketRange(fn.entropy_score)

C7_Witness ==
  /\ fn.op = "detect_recoverable_files"
  /\ fn.entropy_score = 99790
  /\ fn.recoverable_files = 2

(* ---- C2 ---- *)

\* the request body does not supply both fields non-empty
LacksRequiredField(body) ==
  \/ body.kind # "object"
  \/ MissingField(body, "job_id")
  \/ MissingField(body, "device_id")

\* C2: every POST /analyze whose body does not supply both a non-empty job_id
\* and a non-empty device_id (absent, null, empty, or a body that is no object)
\* is answered 400 with an error field, never 200 or 500.
C2_MissingFieldsAnswered400 ==
  \A w \in Workers :
    (AnsweredOn(w, "/analyze") /\ LacksRequiredField(workers[w].body)) =>
      /\ workers[w].response.code = 400
      /\ "error" \in DOMAIN workers[w].response.body

(* ---- C3 ---- *)

ValidAnalyzeBody(body) ==
  /\ body.kind = "object"
  /\ {"job_id", "device_id"} \subseteq body.keys
  /\ NonEmptyStr(body.job_id)
  /\ NonEmptyStr(body.device_id)

\* C3: a POST /analyze with non-empty string job_id and device_id is answered
\* 200 with both echoed unchanged, entropy_score in [95.0, 100.0] and
\* recoverable_files in [0, 50]; nothing raises on the way.
C3_ValidAnalyzeAnswered200 ==
  \A w \in Workers :
    (workers[w].endpoint = "/analyze" /\ ValidAnalyzeBody(workers[w].body)) =>
      /\ workers[w].pc \notin {"raised", "propagated"}
      /\ Answered(w) =>
           /\ workers[w].response.code = 200
           /\ workers[w].response.body.job_id = workers[w].body.job_id
           /\ workers[w].response.body.device_id = workers[w].body.device_id
           /\ workers[w].response.body.entropy_score \in 95000..100000
           /\ workers[w].response.body.recoverable_files \in 0..50

C3_Witness ==
  \E w \in Workers :
    /\ AnsweredOn(w, "/analyze")
    /\ workers[w].body.job_id = JStr("j1")
    /\ workers[w].body.device_id = JStr("d1")
    /\ workers[w].response.code = 200
    /\ workers[w].response.body.entropy_score = 100000

(* ---- C4 ---- *)

\* the response body b carries the status ERROR
HasErrorStatus(b) == "residue_status" \in DOMAIN b /\ b.residue_status = "ERROR"

\* C4: an exception raised while /analyze is handled never leaves the handler:
\* the answer is 500 with an error message and the sentinels entropy_score 0.0,
\* recoverable_files 999, residue_status ERROR; no other response has ERROR.
C4_ExceptionsBecomeSentinel500 ==
  \A w \in Workers :
    /\ workers[w].pc # "propagated"
    /\ (AnsweredOn(w, "/analyze") /\ workers[w].exc # "") =>
         /\ workers[w].response.code = 500
         /\ DOMAIN workers[w].response.body =
              {"error", "entropy_score", "recoverable_files", "residue_status"}
         /\ workers[w].response.body.entropy_score = 0
         /\ workers[w].response.body.recoverable_files = 999
         /\ workers[w].response.body.residue_status = "ERROR"
    /\ (Answered(w) /\ HasErrorStatus(workers[w].response.body)) =>
         /\ workers[w].endpoint = "/analyze"
         /\ workers[w].response.code = 500
         /\ workers[w].exc # ""

\* the exception came out of analyze_device, after the delay
C4_Witness ==
  \E w \in Workers :
    /\ AnsweredOn(w, "/analyze")
    /\ workers[w].exc = "TypeError"
    /\ workers[w].response.code = 500

(* ---- C5 ---- *)

\* C5: POST /quick-scan with an object body without device_id scores the
\* device "unknown" and answers 200 with entropy_score, recoverable_files,
\* residue_status, scan_progress 100 and estimated_time 0; a failure answers
\* 500 with a body holding only an error field.
C5_QuickScanDefaultsToUnknown ==
  \A w \in Workers :
    workers[w].endpoint = "/quick-scan" =>
      /\ (workers[w].body.kind = "object" /\ "device_id" \notin workers[w].body.keys
            /\ workers[w].pc # "start") =>
           /\ workers[w].device_id = JStr("unknown")
           /\ workers[w].exc = ""
           /\ Answered(w) =>
                /\ workers[w].response.code = 200
                /\ DOMAIN workers[w].response.body =
                     {"entropy_score", "recoverable_files", "residue_status",
                      "scan_progress", "estimated_time"}
                /\ workers[w].response.body.entropy_score
                     \in calculate_entropy(hashSeed, JStr("unknown"))
                /\ workers[w].response.body.scan_progress = 100
                /\ workers[w].response.body.estimated_time = 0
      /\ (Answered(w) /\ workers[w].exc # "") =>
           /\ workers[w].response.code = 500
           /\ DOMAIN workers[w].response.body = {"error"}

C5_Witness ==
  \E w \in Workers :
    /\ AnsweredOn(w, "/quick-scan")
    /\ workers[w].body = ObjectBody({}, JNone, JNone)
    /\ workers[w].response.code = 200
    /\ workers[w].response.body.residue_status = "MOSTLY_CLEAN"

(* ---- C6 ---- *)

\* the shape of a /simulation/patterns response, the distances in dist
PatternsResponse(r, dist) ==
  /\ r.code = 200
  /\ Len(r.body.patterns) = 360
  /\ \A i \in 0..359 :
       /\ r.body.patterns[i + 1].angle = i
       /\ r.body.patterns[i + 1].distance \in dist
       /\ r.body.patterns[i + 1].pattern_type
            \in {"deleted_file", "metadata", "free_space", "encrypted"}
  /\ {r.body.patterns[i].angle : i \in 1..Len(r.body.patterns)} = 0..359
  /\ r.body.scan_radius = 1000
  /\ r.body.total_points = 360
  /\ r.body.total_points = Len(r.body.patterns)

OneThreadMoves ==
  \E w \in Workers : \A v \in Workers \ {w} : workers'[v] = workers[v]

AnalyzeOrder == <<"validate", "delay", "entropy", "recoverable", "classify", "respond">>

ScoringSteps == {"delay", "entropy", "recoverable", "classify"}

Events(w) == {workers[w].trace[i] : i \in 1..Len(workers[w].trace)}

\* C9: an /analyze request runs validate, delay, entropy, recoverable count,
\* classify, respond in this order: a 400 is preceded by no delay and no scoring
\* step, a 200 of /analyze by exactly one delay, and /quick-scan never delays.
C9_AnalyzeStepOrder ==
  \A w \in Workers :
    /\ (AnsweredOn(w, "/analyze") /\ workers[w].response.code = 400) =>
         Events(w) \cap ScoringSteps = {}
    /\ (AnsweredOn(w, "/analyze") /\ workers[w].response.code = 200) =>
         workers[w].trace = AnalyzeOrder
    /\ (workers[w].endpoint = "/analyze" /\ ~Answered(w)) =>
         workers[w].trace = SubSeq(AnalyzeOrder, 1, Len(workers[w].trace))
    /\ workers[w].endpoint = "/quick-scan" => "delay" \notin Events(w)

C9_Witness ==
  \E w \in Workers :
    /\ AnsweredOn(w, "/analyze")
    /\ workers[w].response.code = 200
    /\ workers[w].trace = AnalyzeOrder

(* ---- C10 ---- *)

\* the status the claim reads off the entropy score alone
StatusOfEntropy(e) ==
  IF e >= 99800 THEN "CLEAN"
  ELSE IF e >= 99000 THEN "MOSTLY_CLEAN"
  ELSE "SOME_RESIDUE"

\* C10: in every 200 response of /analyze and /quick-scan residue_status is a
\* function of entropy_score alone (CLEAN from 99.8, MOSTLY_CLEAN from 99.0 to
\* below 99.8, SOME_RESIDUE below 99.0), HIGH_RESIDUE never occurs,
\* recoverable_files never exceeds 10, and no response has entropy >= 99.0
\* with recoverable_files > 2.
C10_StatusFollowsEntropy ==
  \A w \in Workers :
    (Answered(w) /\ workers[w].endpoint \in {"/analyze", "/quick-scan"}
       /\ workers[w].response.code = 200) =>
      LET b == workers[w].response.body IN
      /\ b.residue_status = StatusOfEntropy(b.entropy_score)
      /\ b.residue_status # "HIGH_RESIDUE"
      /\ b.recoverable_files <= 10
      /\ ~(b.entropy_score >= 99000 /\ b.recoverable_files > 2)

C10_Witness ==
  \E w \in Workers :
    /\ AnsweredOn(w, "/quick-scan")
    /\ workers[w].response.code = 200
    /\ workers[w].response.body.entropy_score >= 99000
    /\ workers[w].response.body.entropy_score < 99800
    /\ workers[w].response.body.recoverable_files = 2
    /\ workers[w].response.body.residue_status = "MOSTLY_CLEAN"

====
